---------------------------- MODULE Spec2Model ----------------------------
(***************************************************************************)
(* SimpleColorKeyer (src/SimpleColorKeyer.cpp): the per-pixel alpha        *)
(* computation of SimpleColorKeyerIop and the engine loop that writes it.  *)
(*                                                                         *)
(* Numbers.  The code computes in float.  The model computes in decimal    *)
(* fixed point with three fractional digits: the integer n stands for the  *)
(* value n / 1000, so ONE = 1000 is 1.0f and 1 is 0.001f.  Addition and    *)
(* subtraction are exact; a product, a quotient and a square root are      *)
(* rounded once to the grid (Mul, Div, sqrt below), as a float operation   *)
(* is rounded once to its format.  Infinities and NaN are not grid values: *)
(* the one division of the code whose divisor can be zero (line 209) is    *)
(* given the value IEEE-754 arithmetic produces after line 210.            *)
(***************************************************************************)
EXTENDS Integers, Sequences, FiniteSets, TLC

\* ------------------------------------------------------------------------
\* Literals of the source, on the fixed-point grid.
\* ------------------------------------------------------------------------
ONE == 1000
MinTolerance == 1
RangeStep == 100
LumaRed == 299
LumaGreen == 587
LumaBlue == 114
LumaFalloff == 500
SaturationThreshold == 500
WeightLow == 300
WeightHigh == 700

\* ------------------------------------------------------------------------
\* Fixed-point arithmetic.
\* ------------------------------------------------------------------------
Max2(a, b) == IF a < b THEN b ELSE a
Min2(a, b) == IF b < a THEN b ELSE a
Abs(a) == IF a < 0 THEN -a ELSE a

\* n / d rounded to the nearest integer, d > 0.
Round(n, d) == (2 * n + d) \div (2 * d)

\* float * float
Mul(a, b) == Round(a * b, ONE)

\* float / float, b # 0
Div(a, b) == IF b > 0 THEN Round(a * ONE, b) ELSE Round((-a) * ONE, -b)

RECURSIVE SqrtSearch(_, _, _)
SqrtSearch(lo, hi, s) ==
    IF lo >= hi THEN lo
    ELSE LET mid == (lo + hi + 1) \div 2
         IN  IF mid * mid <= s THEN SqrtSearch(mid, hi, s)
                               ELSE SqrtSearch(lo, mid - 1, s)

\* sqrt of s, where s is a sum of squares of grid values: the largest grid
\* value whose square does not exceed s.
sqrt(s) == SqrtSearch(0, Min2(s, 40000), s)

\* ------------------------------------------------------------------------
\* struct Color3
\* ------------------------------------------------------------------------
Color3(cr, cg, cb) == [r |-> cr, g |-> cg, b |-> cb]

distance_to(self, other) ==
    LET dr == self.r - other.r
        dg == self.g - other.g
        db == self.b - other.b
    IN  sqrt(dr * dr + dg * dg + db * db)


\* ------------------------------------------------------------------------
\* Channels (DDImage).
\* ------------------------------------------------------------------------
Chan_Red == "Chan_Red"
Chan_Green == "Chan_Green"
Chan_Blue == "Chan_Blue"
Chan_Alpha == "Chan_Alpha"
Mask_RGB == {Chan_Red, Chan_Green, Chan_Blue}
Mask_RGBA == {Chan_Red, Chan_Green, Chan_Blue, Chan_Alpha}

\* The six range knobs as one value.
Ranges(red, green, blue, yellow, magenta, cyan) ==
    [red |-> red, green |-> green, blue |-> blue,
     yellow |-> yellow, magenta |-> magenta, cyan |-> cyan]

Directions == {"red", "green", "blue", "yellow", "magenta", "cyan"}

\* How much a pixel matches each of the six colour directions.
match(pixel) ==
    [red     |-> pixel.r,
     green   |-> pixel.g,
     blue    |-> pixel.b,
     yellow  |-> Min2(pixel.r, pixel.g),
     magenta |-> Min2(pixel.r, pixel.b),
     cyan    |-> Min2(pixel.g, pixel.b)]

\* range * 0.1f * match, added when the guard on the range holds.
expand(guard, range, m) == IF guard THEN Mul(Mul(range, RangeStep), m) ELSE 0

\* effective_tolerance with the block of lines 172-190 left out: negative
\* ranges do not contract the tolerance.
effective_tolerance_no_contraction(pixel, variance, rng) ==
    LET m == match(pixel)
    IN  Max2(MinTolerance,
             variance
             + expand(rng.red > 0, rng.red, m.red)
             + expand(rng.green > 0, rng.green, m.green)
             + expand(rng.blue > 0, rng.blue, m.blue)
             + expand(rng.yellow > 0, rng.yellow, m.yellow)
             + expand(rng.magenta > 0, rng.magenta, m.magenta)
             + expand(rng.cyan > 0, rng.cyan, m.cyan))

\* effective_tolerance of calculate_distance_alpha, after the floor.
effective_tolerance(pixel, variance, rng) ==
    LET m  == match(pixel)
        t0 == variance
        \* tolerance expansion, positive ranges
        t1 == t0 + expand(rng.red > 0, rng.red, m.red)
        t2 == t1 + expand(rng.green > 0, rng.green, m.green)
        t3 == t2 + expand(rng.blue > 0, rng.blue, m.blue)
        t4 == t3 + expand(rng.yellow > 0, rng.yellow, m.yellow)
        t5 == t4 + expand(rng.magenta > 0, rng.magenta, m.magenta)
        t6 == t5 + expand(rng.cyan > 0, rng.cyan, m.cyan)
        \* negative ranges
        t7  == t6 + expand(rng.red < 0, rng.red, m.red)
        t8  == t7 + expand(rng.green < 0, rng.green, m.green)
        t9  == t8 + expand(rng.blue < 0, rng.blue, m.blue)
        t10 == t9 + expand(rng.yellow < 0, rng.yellow, m.yellow)
        t11 == t10 + expand(rng.magenta < 0, rng.magenta, m.magenta)
        t12 == t11 + expand(rng.cyan < 0, rng.cyan, m.cyan)
    IN  Max2(MinTolerance, t12)

\* calculate_distance_alpha with line 196 multiplying where it divides.
calculate_distance_alpha_times(pixel, key, variance, rng) ==
    Max2(0, ONE - Mul(distance_to(pixel, key),
                      effective_tolerance(pixel, variance, rng)))

calculate_distance_alpha(pixel, key, variance, rng) ==
    LET base_distance == distance_to(pixel, key)
        normalized_distance ==
            Div(base_distance, effective_tolerance(pixel, variance, rng))
    IN  Max2(0, ONE - normalized_distance)

\* chroma_distance with pixel_v and key_v taken as the blue channel alone.
chroma_distance_blue(pixel, key) ==
    LET pixel_u == pixel.r - pixel.g
        key_u == key.r - key.g
    IN  sqrt((pixel_u - key_u) * (pixel_u - key_u)
             + (pixel.b - key.b) * (pixel.b - key.b))

\* chroma_distance of calculate_chroma_alpha.
chroma_distance(pixel, key) ==
    LET pixel_u == pixel.r - pixel.g
        pixel_v == pixel.b - pixel.g
        key_u == key.r - key.g
        key_v == key.b - key.g
    IN  sqrt((pixel_u - key_u) * (pixel_u - key_u)
             + (pixel_v - key_v) * (pixel_v - key_v))

\* With variance_ = 0 the quotient of line 209 is +inf (chroma_distance > 0)
\* or NaN (chroma_distance = 0); 1.0f minus it is -inf or NaN, and
\* std::max(0.0f, .) returns its first argument, 0.0f, for both.
calculate_chroma_alpha(pixel, key, variance) ==
    IF variance = 0 THEN 0
    ELSE Max2(0, ONE - Div(chroma_distance(pixel, key), variance))

calculate_luma_weighted_alpha(pixel, key, variance, rng) ==
    LET pixel_luma == Mul(LumaRed, pixel.r) + Mul(LumaGreen, pixel.g)
                      + Mul(LumaBlue, pixel.b)
        key_luma == Mul(LumaRed, key.r) + Mul(LumaGreen, key.g)
                    + Mul(LumaBlue, key.b)
        luma_diff == Abs(pixel_luma - key_luma)
        luma_weight == ONE - Min2(ONE, Div(luma_diff, LumaFalloff))
        color_alpha == calculate_distance_alpha(pixel, key, variance, rng)
    IN  Mul(color_alpha, luma_weight)

Max3(a, b, c) == Max2(Max2(a, b), c)
Min3(a, b, c) == Min2(Min2(a, b), c)

key_saturation(key) == Max3(key.r, key.g, key.b) - Min3(key.r, key.g, key.b)

\* calculate_adaptive_alpha with >= in the test of line 231.
calculate_adaptive_alpha_ge(pixel, key, variance, rng) ==
    LET distance_alpha == calculate_distance_alpha(pixel, key, variance, rng)
        chroma_alpha == calculate_chroma_alpha(pixel, key, variance)
    IN  IF key_saturation(key) >= SaturationThreshold
        THEN Mul(WeightLow, distance_alpha) + Mul(WeightHigh, chroma_alpha)
        ELSE Mul(WeightHigh, distance_alpha) + Mul(WeightLow, chroma_alpha)

calculate_adaptive_alpha(pixel, key, variance, rng) ==
    LET distance_alpha == calculate_distance_alpha(pixel, key, variance, rng)
        chroma_alpha == calculate_chroma_alpha(pixel, key, variance)
    IN  IF key_saturation(key) > SaturationThreshold
        THEN Mul(WeightLow, distance_alpha) + Mul(WeightHigh, chroma_alpha)
        ELSE Mul(WeightHigh, distance_alpha) + Mul(WeightLow, chroma_alpha)

\* The switch of calculate_alpha: no default case, alpha keeps 0.0f.
calculate_alpha(method, pixel, key, variance, rng) ==
    CASE method = 0 -> calculate_distance_alpha(pixel, key, variance, rng)
      [] method = 1 -> calculate_chroma_alpha(pixel, key, variance)
      [] method = 2 -> calculate_luma_weighted_alpha(pixel, key, variance, rng)
      [] method = 3 -> calculate_adaptive_alpha(pixel, key, variance, rng)
      [] OTHER -> 0

\* The divisors of the divisions calculate_alpha executes for one pixel:
\* line 196 (effective_tolerance), line 209 (variance_), line 218 (0.5f).
distance_divisors(pixel, variance, rng) ==
    {effective_tolerance(pixel, variance, rng)}

chroma_divisors(variance) == {variance}

divisors_of(method, pixel, variance, rng) ==
    CASE method = 0 -> distance_divisors(pixel, variance, rng)
      [] method = 1 -> chroma_divisors(variance)
      [] method = 2 -> {LumaFalloff} \cup distance_divisors(pixel, variance, rng)
      [] method = 3 -> distance_divisors(pixel, variance, rng)
                       \cup chroma_divisors(variance)
      [] OTHER -> {}

\* Lines 96-102 without the clamp of line 98.
apply_gain_unclamped(alpha, gain, invert) ==
    IF invert THEN ONE - Mul(alpha, gain) ELSE Mul(alpha, gain)

\* Lines 96-102 with the inversion done first, on the raw alpha.
apply_gain_invert_first(alpha, gain, invert) ==
    LET inverted == IF invert THEN ONE - alpha ELSE alpha
    IN  Max2(0, Min2(ONE, Mul(inverted, gain)))

\* Lines 96-102 of engine: gain, clamp, invert.
apply_gain(alpha, gain, invert) ==
    LET gained == Mul(alpha, gain)
        clamped == Max2(0, Min2(ONE, gained))
    IN  IF invert THEN ONE - clamped ELSE clamped

\* ------------------------------------------------------------------------
\* Inputs.
\* ------------------------------------------------------------------------
RowWidth == 2

\* key_color_ values: the default green, a low-saturation key, a key of
\* saturation exactly 0.5, pure red.
KeyColors == {<<0, 1000, 0>>, <<400, 400, 500>>, <<500, 0, 0>>, <<1000, 0, 0>>}

Variances == {-300, 0, 300}
Gains == {0, 1000, 2000}
Methods == 0..4
RangeValues == {-3000, 0, 3000}
RangeSettings ==
    {Ranges(0, 0, 0, 0, 0, 0), Ranges(0, 0, 0, 3000, 0, 0),
     Ranges(-3000, 1500, 0, 0, 0, 0)}

\* Channel values of input pixels.
InputPixels == {Color3(0, 1000, 0), Color3(0, 850, 0), Color3(1000, 1000, 1000)}
RequestedChannels == {Mask_RGBA, Mask_RGB, {Chan_Red}}

\* ------------------------------------------------------------------------
\* State.
\* ------------------------------------------------------------------------
VARIABLES
    key_color_, variance_,
    range_red_, range_magenta_, range_green_,
    range_yellow_, range_blue_, range_cyan_,
    gain_, invert_, keying_method_,
    pc,            \* "idle", or "engine" inside a call of engine
    x, r,          \* engine's arguments: the row covers x <= X < r
    channels,      \* engine's argument: the channels requested
    input_row,     \* engine's local: Mask_RGB of the input, for x..r-1
    row,           \* engine's out-parameter: per channel, the X written
    X,             \* engine's loop variable
    raw_alpha,     \* what calculate_alpha returned (line 94), per X
    divisors       \* the divisors calculate_alpha divided by, per X

knob_vars == <<key_color_, variance_, range_red_, range_magenta_, range_green_,
               range_yellow_, range_blue_, range_cyan_, gain_, invert_,
               keying_method_>>
engine_vars == <<pc, x, r, channels, input_row, row, X, raw_alpha, divisors>>
vars == <<knob_vars, engine_vars>>

Nothing == [i \in {} |-> 0]

\* f with f[i] set to v.
Put(f, i, v) == [j \in DOMAIN f \cup {i} |-> IF j = i THEN v ELSE f[j]]

range_knobs ==
    Ranges(range_red_, range_green_, range_blue_,
           range_yellow_, range_magenta_, range_cyan_)

\* No call of engine is in progress.
NoCall ==
    /\ pc = "idle"
    /\ x = 0 /\ r = 0 /\ X = 0
    /\ channels = {}
    /\ input_row = [c \in Mask_RGB |-> Nothing]
    /\ row = [c \in Mask_RGBA |-> Nothing]
    /\ raw_alpha = Nothing
    /\ divisors = Nothing

\* The constructor.
Init ==
    /\ key_color_ = <<0, 1000, 0>>
    /\ variance_ = 300
    /\ range_red_ = 0 /\ range_magenta_ = 0 /\ range_green_ = 0
    /\ range_yellow_ = 0 /\ range_blue_ = 0 /\ range_cyan_ = 0
    /\ gain_ = 1000
    /\ invert_ = FALSE
    /\ keying_method_ = 0
    /\ NoCall

\* knobs(f) with a storing callback: the host stores every knob's value
\* into its field.  None of the knobs checks the value it stores.
knobs ==
    /\ pc = "idle"
    /\ key_color_' \in KeyColors
    /\ variance_' \in Variances
    /\ \E rs \in RangeSettings :
          /\ range_red_' = rs.red /\ range_green_' = rs.green
          /\ range_blue_' = rs.blue /\ range_yellow_' = rs.yellow
          /\ range_magenta_' = rs.magenta /\ range_cyan_' = rs.cyan
    /\ gain_' \in Gains
    /\ invert_' \in BOOLEAN
    /\ keying_method_' \in Methods
    /\ UNCHANGED engine_vars

\* engine, lines 81-85: the host calls with a fresh row; the input's RGB
\* is fetched for x..r-1.
engine_begin ==
    /\ pc = "idle"
    /\ \E x0 \in 0..RowWidth, r0 \in 0..RowWidth :
          /\ x0 <= r0
          /\ x' = x0 /\ r' = r0 /\ X' = x0
          /\ \E px \in [x0..(r0 - 1) -> InputPixels] :
                input_row' = [c \in Mask_RGB |->
                                [i \in x0..(r0 - 1) |->
                                    CASE c = Chan_Red -> px[i].r
                                      [] c = Chan_Green -> px[i].g
                                      [] c = Chan_Blue -> px[i].b]]
    /\ channels' \in RequestedChannels
    /\ row' = [c \in Mask_RGBA |-> Nothing]
    /\ raw_alpha' = Nothing
    /\ divisors' = Nothing
    /\ pc' = "engine"
    /\ UNCHANGED knob_vars

\* Lines 105-110 with alpha written only when it is requested.
write_channels_if_requested(out, chans, i, in, alpha) ==
    [c \in Mask_RGBA |->
        IF c \notin chans THEN out[c]
        ELSE IF c = Chan_Alpha THEN Put(out[c], i, alpha)
        ELSE Put(out[c], i, in[c][i])]

\* Lines 105-110: RGB copied when requested, alpha always.
write_channels(out, chans, i, in, alpha) ==
    [c \in Mask_RGBA |->
        IF c = Chan_Alpha THEN Put(out[c], i, alpha)
        ELSE IF c \in chans THEN Put(out[c], i, in[c][i])
        ELSE out[c]]

\* One iteration of the loop of lines 87-111.
engine_pixel ==
    /\ pc = "engine"
    /\ X < r
    /\ LET key_color == Color3(key_color_[1], key_color_[2], key_color_[3])
           pixel_color == Color3(input_row[Chan_Red][X],
                                 input_row[Chan_Green][X],
                                 input_row[Chan_Blue][X])
           alpha == calculate_alpha(keying_method_, pixel_color, key_color,
                                    variance_, range_knobs)
       IN  /\ raw_alpha' = Put(raw_alpha, X, alpha)
           /\ divisors' = Put(divisors, X,
                              divisors_of(keying_method_, pixel_color,
                                          variance_, range_knobs))
           /\ row' = write_channels(row, channels, X, input_row,
                                    apply_gain(alpha, gain_, invert_))
    /\ X' = X + 1
    /\ UNCHANGED <<knob_vars, pc, x, r, channels, input_row>>

\* The loop ends and engine returns; its locals and arguments are gone.
engine_end ==
    /\ pc = "engine"
    /\ X >= r
    /\ pc' = "idle"
    /\ x' = 0 /\ r' = 0 /\ X' = 0
    /\ channels' = {}
    /\ input_row' = [c \in Mask_RGB |-> Nothing]
    /\ row' = [c \in Mask_RGBA |-> Nothing]
    /\ raw_alpha' = Nothing
    /\ divisors' = Nothing
    /\ UNCHANGED knob_vars

Next == knobs \/ engine_begin \/ engine_pixel \/ engine_end

Spec == Init /\ [][Next]_vars

\* ------------------------------------------------------------------------
\* calculate_alpha as a function of its inputs: engine on a row of one
\* pixel, the pixel and the knobs drawn from the sets below.
\* ------------------------------------------------------------------------
AlphaPixels ==
    {Color3(0, 1000, 0), Color3(0, 850, 0), Color3(1000, 1000, 1000),
     Color3(1000, 1000, 0), Color3(400, 400, 500), Color3(450, 50, 0),
     Color3(500, 0, 0), Color3(2000, 1500, 500), Color3(-200, 1000, 0)}

AlphaVariances == {-300, 0, 1, 300, 600, 2000}

\* Every setting of the six range knobs to -3, 0 or +3 with at most two of
\* them away from 0.
AlphaRanges ==
    {rs \in [Directions -> RangeValues] :
        Cardinality({d \in Directions : rs[d] # 0}) <= 2}

InitAlpha ==
    /\ key_color_ \in KeyColors
    /\ variance_ \in AlphaVariances
    /\ \E rs \in AlphaRanges :
          /\ range_red_ = rs.red /\ range_green_ = rs.green
          /\ range_blue_ = rs.blue /\ range_yellow_ = rs.yellow
          /\ range_magenta_ = rs.magenta /\ range_cyan_ = rs.cyan
    /\ gain_ = ONE
    /\ invert_ = FALSE
    /\ keying_method_ \in Methods
    /\ pc = "engine"
    /\ x = 0 /\ r = 1 /\ X = 0
    /\ channels = Mask_RGBA
    /\ \E px \in AlphaPixels :
          input_row = [c \in Mask_RGB |->
                         [i \in {0} |->
                             CASE c = Chan_Red -> px.r
                               [] c = Chan_Green -> px.g
                               [] c = Chan_Blue -> px.b]]
    /\ row = [c \in Mask_RGBA |-> Nothing]
    /\ raw_alpha = Nothing
    /\ divisors = Nothing

NextAlpha == engine_pixel \/ engine_end

SpecAlpha == InitAlpha /\ [][NextAlpha]_vars

\* ------------------------------------------------------------------------
\* Properties.
\* ------------------------------------------------------------------------
key_color_now == Color3(key_color_[1], key_color_[2], key_color_[3])

pixel_at(i) ==
    Color3(input_row[Chan_Red][i], input_row[Chan_Green][i],
           input_row[Chan_Blue][i])

\* The pixels of the current call for which calculate_alpha has returned.
Evaluated == DOMAIN raw_alpha

Clamp01(v) == IF v < 0 THEN 0 ELSE IF v > ONE THEN ONE ELSE v

\* C1: every alpha value engine writes to the alpha channel lies in [0,1],
\* for every pixel, key, method, variance, range setting, gain and invert.
C1_AlphaInUnitInterval ==
    \A i \in DOMAIN row[Chan_Alpha] :
        0 <= row[Chan_Alpha][i] /\ row[Chan_Alpha][i] <= ONE

\* C1 witness: an Adaptive alpha under a negative variance whose gained
\* value exceeds 1 has been written.
C1_Witness ==
    \E i \in DOMAIN row[Chan_Alpha] :
        /\ keying_method_ = 3
        /\ variance_ < 0
        /\ Mul(raw_alpha[i], gain_) > ONE
        /\ row[Chan_Alpha][i] = ONE

\* C2: the alpha written is clamp(raw * gain, 0, 1), and 1 minus that when
\* invert is on; raw 1.0 with gain 2 and invert gives 0.0, raw 0.5 with
\* gain 1 and invert gives 0.5.
C2_GainClampInvert ==
    /\ \A i \in DOMAIN row[Chan_Alpha] :
          row[Chan_Alpha][i] =
              IF invert_ THEN ONE - Clamp01(Mul(raw_alpha[i], gain_))
                         ELSE Clamp01(Mul(raw_alpha[i], gain_))
    /\ \A i \in DOMAIN row[Chan_Alpha] :
          /\ (raw_alpha[i] = ONE /\ gain_ = 2 * ONE /\ invert_)
                => row[Chan_Alpha][i] = 0
          /\ (2 * raw_alpha[i] = ONE /\ gain_ = ONE /\ invert_)
                => 2 * row[Chan_Alpha][i] = ONE

\* C2 witness: a row holding raw 1.0 written as 0.0 and raw 0.5 written
\* as 0.0 too, under gain 2 and invert.
C2_Witness ==
    /\ gain_ = 2 * ONE /\ invert_
    /\ \E i \in DOMAIN row[Chan_Alpha] :
          raw_alpha[i] = ONE /\ row[Chan_Alpha][i] = 0
    /\ \E i \in DOMAIN row[Chan_Alpha] :
          2 * raw_alpha[i] = ONE /\ row[Chan_Alpha][i] = 0

\* C3: on the Distance, LumaWeighted and Adaptive paths no division has a
\* zero divisor.
C3_NoDivisionByZero ==
    \A i \in Evaluated :
        keying_method_ \in {0, 2, 3} => \A d \in divisors[i] : d # 0

\* The claim's tolerance: max(0.001, variance + 0.1 * sum of range * match).
ClaimedTolerance(pixel, variance, rng) ==
    LET m == match(pixel)
        total == Mul(rng.red, m.red) + Mul(rng.green, m.green)
                 + Mul(rng.blue, m.blue) + Mul(rng.yellow, m.yellow)
                 + Mul(rng.magenta, m.magenta) + Mul(rng.cyan, m.cyan)
    IN  Max2(MinTolerance, variance + Mul(RangeStep, total))

\* C4: the Distance raw alpha is max(0, 1 - d/T) with d the RGB distance
\* and T the claim's tolerance; it is 1 when the pixel is the key colour
\* and 0 whenever d >= T.
C4_DistanceFalloff ==
    \A i \in Evaluated :
        keying_method_ = 0 =>
            LET d == distance_to(pixel_at(i), key_color_now)
                T == ClaimedTolerance(pixel_at(i), variance_, range_knobs)
            IN  /\ raw_alpha[i] = Max2(0, ONE - Div(d, T))
                /\ pixel_at(i) = key_color_now => raw_alpha[i] = ONE
                /\ d >= T => raw_alpha[i] = 0

\* C4 witness: a Distance alpha strictly between 0 and 1 computed with a
\* negative range that contracts the tolerance of the pixel.
C4_Witness ==
    \E i \in Evaluated :
        /\ keying_method_ = 0
        /\ 0 < raw_alpha[i] /\ raw_alpha[i] < ONE
        /\ \E d \in Directions :
              range_knobs[d] < 0 /\ match(pixel_at(i))[d] > 0

\* C5: per direction, against the same direction set to 0, a positive range
\* gives a tolerance and a Distance alpha no smaller, a negative range gives
\* a tolerance and a Distance alpha no larger.
C5_RangeSign ==
    \A i \in Evaluated :
        keying_method_ = 0 =>
            \A d \in Directions :
                LET rng == range_knobs
                    rng0 == [rng EXCEPT ![d] = 0]
                    T == effective_tolerance(pixel_at(i), variance_, rng)
                    T0 == effective_tolerance(pixel_at(i), variance_, rng0)
                    a0 == calculate_distance_alpha(pixel_at(i), key_color_now,
                                                   variance_, rng0)
                IN  /\ rng[d] > 0 => (T >= T0 /\ raw_alpha[i] >= a0)
                    /\ rng[d] < 0 => (T <= T0 /\ raw_alpha[i] <= a0)

\* C6: for a fixed pixel, key and range setting the Distance raw alpha does
\* not decrease when variance increases.
C6_MonotoneInVariance ==
    \A i \in Evaluated :
        keying_method_ = 0 =>
            \A v \in AlphaVariances :
                LET a == calculate_distance_alpha(pixel_at(i), key_color_now,
                                                  v, range_knobs)
                IN  /\ variance_ <= v => raw_alpha[i] <= a
                    /\ v <= variance_ => a <= raw_alpha[i]

\* C6 witness: a Distance alpha that a larger variance strictly raises.
C6_Witness ==
    \E i \in Evaluated :
        /\ keying_method_ = 0
        /\ \E v \in AlphaVariances :
              /\ variance_ < v
              /\ raw_alpha[i] < calculate_distance_alpha(
                                    pixel_at(i), key_color_now, v, range_knobs)

Shifts == {-500, 250, 1000}

Shifted(pixel, d) == Color3(pixel.r + d, pixel.g + d, pixel.b + d)

\* C7: with variance > 0 the Chroma raw alpha is max(0, 1 - dist_uv/variance)
\* with u = r - g and v = b - g, the same for the pixel shifted by (d,d,d),
\* and the same under every range setting.
C7_ChromaShiftInvariant ==
    \A i \in Evaluated :
        (keying_method_ = 1 /\ variance_ > 0) =>
            LET p == pixel_at(i)
                k == key_color_now
                du == (p.r - p.g) - (k.r - k.g)
                dv == (p.b - p.g) - (k.b - k.g)
            IN  /\ raw_alpha[i] =
                      Max2(0, ONE - Div(sqrt(du * du + dv * dv), variance_))
                /\ \A d \in Shifts :
                      calculate_chroma_alpha(Shifted(p, d), k, variance_)
                          = raw_alpha[i]
                /\ \A rs \in AlphaRanges :
                      calculate_alpha(1, p, k, variance_, rs) = raw_alpha[i]

\* C7 witness: a Chroma alpha strictly between 0 and 1 of a pixel whose
\* luminance differs from the key's, computed with a range knob set.
C7_Witness ==
    \E i \in Evaluated :
        /\ keying_method_ = 1 /\ variance_ > 0
        /\ 0 < raw_alpha[i] /\ raw_alpha[i] < ONE
        /\ pixel_at(i).g # key_color_now.g
        /\ \E d \in Directions : range_knobs[d] # 0

\* C8: the Adaptive raw alpha is 0.3*distance + 0.7*chroma when the key's
\* saturation is strictly above 0.5 and 0.7*distance + 0.3*chroma otherwise,
\* whatever the pixel.
C8_AdaptiveBlend ==
    \A i \in Evaluated :
        keying_method_ = 3 =>
            LET k == key_color_now
                hi == IF k.r >= k.g /\ k.r >= k.b THEN k.r
                      ELSE IF k.g >= k.b THEN k.g ELSE k.b
                lo == IF k.r <= k.g /\ k.r <= k.b THEN k.r
                      ELSE IF k.g <= k.b THEN k.g ELSE k.b
                da == calculate_distance_alpha(pixel_at(i), k, variance_,
                                               range_knobs)
                ca == calculate_chroma_alpha(pixel_at(i), k, variance_)
            IN  raw_alpha[i] =
                    IF 2 * (hi - lo) > ONE
                    THEN Mul(WeightLow, da) + Mul(WeightHigh, ca)
                    ELSE Mul(WeightHigh, da) + Mul(WeightLow, ca)

\* C8 witness: an Adaptive alpha for a key of saturation exactly 0.5 where
\* the two weightings give different values.
C8_Witness ==
    \E i \in Evaluated :
        LET k == key_color_now
            da == calculate_distance_alpha(pixel_at(i), k, variance_,
                                           range_knobs)
            ca == calculate_chroma_alpha(pixel_at(i), k, variance_)
        IN  /\ keying_method_ = 3
            /\ 2 * key_saturation(k) = ONE
            /\ Mul(WeightLow, da) + Mul(WeightHigh, ca)
                  # Mul(WeightHigh, da) + Mul(WeightLow, ca)
            /\ raw_alpha[i] = Mul(WeightHigh, da) + Mul(WeightLow, ca)

\* C9: for every pixel engine has processed, each colour channel written
\* holds the input's value, each requested colour channel is written, and
\* alpha is written whether or not it was requested.
C9_RgbPassthrough ==
    pc = "engine" =>
        \A i \in x..(X - 1) :
            /\ i \in DOMAIN row[Chan_Alpha]
            /\ \A c \in Mask_RGB :
                  /\ c \in channels => i \in DOMAIN row[c]
                  /\ i \in DOMAIN row[c] => row[c][i] = input_row[c][i]

\* C9 witness: a whole row of two pixels processed with only red requested,
\* red copied and an alpha different from every colour value written.
C9_Witness ==
    /\ pc = "engine" /\ X = r /\ r - x >= 2
    /\ channels = {Chan_Red}
    /\ \A i \in x..(X - 1) :
          /\ row[Chan_Red][i] = input_row[Chan_Red][i]
          /\ i \notin DOMAIN row[Chan_Green]
          /\ row[Chan_Alpha][i] # input_row[Chan_Red][i]

\* C10: with a method selector outside 0..3 engine produces no alpha.
C10_InvalidMethodRejected ==
    (pc = "engine" /\ keying_method_ \notin 0..3) =>
        DOMAIN row[Chan_Alpha] = {}

=============================================================================
